---- MODULE Spec2Model ----
(***************************************************************************)
(* Model of the MQTT data collector of src/main.go: the subscribe callback *)
(* of main, the per-event handlers, the POWER_PLN correlation              *)
(* (checkCombinedConditions, handlePowerPln, handleClearPowerPlnEvent) and *)
(* the process-wide eventState map they share.                             *)
(***************************************************************************)
EXTENDS Integers, Sequences, FiniteSets, TLC

\* Number of inbound messages a behaviour delivers.
MaxMsgs == 3

\* Number of callbacks that run concurrently.
MaxTasks == 2

\* Number of messages a behaviour of well-formed correlation events delivers.
MaxCorrMsgs == 4

\* Number of callbacks of one sender that run concurrently.
MaxRaceTasks == 3

(***************************************************************************)
(* Inputs: topics and payloads.                                            *)
(***************************************************************************)

\* Sender ids are the third level of the topic; any topic level is possible,
\* also one that contains an underscore.
Senders == {"A", "B", "A_CLEAR"}

Topics == {<<"modem", "data", s>> : s \in Senders}

PBM == "POWER_BACKUP_MODE"
PRM == "POWER_RESTORE_MODE"
AMD == "ALARM_METER_DEVICE"
CAMD == "CLEAR_ALARM_METER_DEVICE"

FlagNames == {PBM, PRM, AMD, CAMD}

\* The kinds whose handlers only forward the primitive record.
PassThroughKinds ==
    {"ALARM_METER_TEMPER", "CLEAR_ALARM_METER_TEMPER", "STATUS_MODEM_ON",
     "STATUS_MODEM_OFF", "ALARM_TEMPERATURE", "CLEAR_ALARM_TEMPERATURE"}

EventKinds ==
    FlagNames \cup PassThroughKinds \cup {"TEMPERATURE", "SET_TEMPERATURE", "GEOLOCATION"}

\* An event name outside the dispatch switch.
UnknownKind == "REBOOT"

\* "timestamp" of the JSON body: absent, a JSON number, a string that
\* strconv.ParseFloat rejects, a string it accepts.
TsShapes == {"missing", "number", "badstr", "ok"}

\* "message" of the JSON body: absent, a non-string value, a string without
\* and with cell tower coordinate sets.
MsgShapes == {"missing", "other", "text", "coords"}

MsgShapesOf(e) ==
    CASE e = "GEOLOCATION" -> MsgShapes
      [] e \in {"TEMPERATURE", "SET_TEMPERATURE"} -> {"missing", "other", "text"}
      [] OTHER -> {"missing"}

NonJson == [json |-> FALSE, event |-> "", ts |-> "missing", msg |-> "missing"]

NoEvent == [json |-> TRUE, event |-> "", ts |-> "ok", msg |-> "missing"]

Payloads ==
    {NonJson, NoEvent} \cup
    UNION {{[json |-> TRUE, event |-> e, ts |-> t, msg |-> m] :
                 t \in TsShapes, m \in MsgShapesOf(e)} :
           e \in EventKinds \cup {UnknownKind}}

\* A well-formed payload of a kind that needs no "message".
WellFormedPayload(e) == [json |-> TRUE, event |-> e, ts |-> "ok", msg |-> "missing"]

\* The result of the geolocation HTTP lookup.
GeoResults == {"ok", "fail"}

VARIABLES
    eventState,   \* the sync.Map: key string -> stored value
    plnLog,       \* per sender, the values of the POWER_PLN records emitted
    seen,         \* per sender, the correlation kinds decoded so far
    step,         \* what the last delivery did
    n,            \* messages delivered
    crashed,      \* the process has panicked
    tasks         \* the callbacks in flight, when callbacks run concurrently

vars == <<eventState, plnLog, seen, step, n, crashed, tasks>>

(***************************************************************************)
(* The sync.Map.                                                           *)
(***************************************************************************)
EmptyMap == [k \in {} |-> TRUE]

StoreKey(m, k, v) == [x \in DOMAIN m \cup {k} |-> IF x = k THEN v ELSE m[x]]

\* A Delete that leaves an entry behind when the key is absent.
DeleteKeyToggles(m, k) ==
    IF k \in DOMAIN m THEN [x \in DOMAIN m \ {k} |-> m[x]]
    ELSE [x \in DOMAIN m \cup {k} |-> IF x = k THEN FALSE ELSE m[x]]

DeleteKey(m, k) == [x \in DOMAIN m \ {k} |-> m[x]]

\* Load: the value and whether the key is present (a nil value when absent;
\* the callers test presence before they assert the bool).
LoadKey(m, k) ==
    IF k \in DOMAIN m THEN [v |-> m[k], ok |-> TRUE] ELSE [v |-> FALSE, ok |-> FALSE]

\* senderID + "_" + flag
Key(s, f) == s \o "_" \o f

\* strings.Split(msg.Topic(), "/")[2]
SenderOf(topic) == topic[3]

TopicOf(s) == <<"modem", "data", s>>

(***************************************************************************)
(* Records and handler results.                                            *)
(***************************************************************************)
Rec(eventName, value, s, p) ==
    [event |-> eventName, value |-> value, sender |-> s, msg |-> p]

\* A handler run: the map afterwards, the records emitted in order, and
\* whether the goroutine panicked.
Res(st, out) == [st |-> st, out |-> out, panic |-> FALSE]

Panic(st) == [st |-> st, out |-> <<>>, panic |-> TRUE]

\* json.Unmarshal of the body, the string assertion on "timestamp" and
\* strconv.ParseFloat, as every handler but the geolocation one starts.
DecodesTimestamp(p) == p.json /\ p.ts = "ok"

(***************************************************************************)
(* The POWER_PLN correlation.                                              *)
(***************************************************************************)

\* Emits POWER_PLN(0) when either one-shot flag is loaded, then deletes the
\* one-shot flags it loaded.
handleClearPowerPlnEvent(st, s, p, event) ==
    IF ~DecodesTimestamp(p) THEN Res(st, <<>>)
    ELSE IF event \notin {PRM, CAMD} THEN Res(st, <<>>)
    ELSE
      LET st1 == StoreKey(st, Key(s, event), TRUE)
          alarmEvent == LoadKey(st1, Key(s, CAMD))
          powerEvent == LoadKey(st1, Key(s, PRM))
          clearAlarmMeterDevice == alarmEvent.ok /\ alarmEvent.v
          powerRestoreMode == powerEvent.ok /\ powerEvent.v
          st2 == IF clearAlarmMeterDevice THEN DeleteKey(st1, Key(s, CAMD)) ELSE st1
          st3 == IF powerRestoreMode THEN DeleteKey(st2, Key(s, PRM)) ELSE st2
      IN  IF clearAlarmMeterDevice \/ powerRestoreMode
            THEN Res(st3, <<Rec("POWER_PLN", "0", s, p)>>)
            ELSE Res(st1, <<>>)

\* handlePowerPln with a POWER_PLN record built without Msg and Time.
handlePowerPlnWithoutMsg(st, s, p, event) ==
    IF ~DecodesTimestamp(p) THEN Res(st, <<>>)
    ELSE IF event \in {PBM, AMD} THEN
      LET st1 == StoreKey(st, Key(s, event), TRUE)
          alarmEvent == LoadKey(st1, Key(s, AMD))
          powerEvent == LoadKey(st1, Key(s, PBM))
      IN  IF alarmEvent.ok /\ alarmEvent.v /\ powerEvent.ok /\ powerEvent.v
            THEN Res(st1, <<Rec("POWER_PLN", "1", s, NonJson)>>)
            ELSE Res(st1, <<>>)
    ELSE IF event \in {PRM, CAMD} THEN handleClearPowerPlnEvent(st, s, p, event)
    ELSE Res(st, <<>>)

\* Emits POWER_PLN(1) for the two alarm kinds when both alarm flags are
\* loaded; hands the two clearing kinds to handleClearPowerPlnEvent.
handlePowerPln(st, s, p, event) ==
    IF ~DecodesTimestamp(p) THEN Res(st, <<>>)
    ELSE IF event \in {PBM, AMD} THEN
      LET st1 == StoreKey(st, Key(s, event), TRUE)
          alarmEvent == LoadKey(st1, Key(s, AMD))
          powerEvent == LoadKey(st1, Key(s, PBM))
          connectionMissing == alarmEvent.ok /\ alarmEvent.v
          powerBackupMode == powerEvent.ok /\ powerEvent.v
      IN  IF connectionMissing /\ powerBackupMode
            THEN Res(st1, <<Rec("POWER_PLN", "1", s, p)>>)
            ELSE Res(st1, <<>>)
    ELSE IF event \in {PRM, CAMD} THEN handleClearPowerPlnEvent(st, s, p, event)
    ELSE Res(st, <<>>)

\* checkCombinedConditions with the presence test written with "or".
checkCombinedConditionsEither(st, s, p, event) ==
    LET alarmEvent == LoadKey(st, Key(s, AMD))
        powerEvent == LoadKey(st, Key(s, PBM))
    IN  IF alarmEvent.ok \/ powerEvent.ok
          THEN handlePowerPln(st, s, p, event)
          ELSE Res(st, <<>>)

\* Calls handlePowerPln when both alarm flags are stored and true.
checkCombinedConditions(st, s, p, event) ==
    LET alarmEvent == LoadKey(st, Key(s, AMD))
        powerEvent == LoadKey(st, Key(s, PBM))
    IN  IF alarmEvent.ok /\ powerEvent.ok
          THEN IF alarmEvent.v /\ powerEvent.v
                 THEN handlePowerPln(st, s, p, event)
                 ELSE Res(st, <<>>)
          ELSE Res(st, <<>>)

(***************************************************************************)
(* The handlers of the correlation kinds: the primitive record, the flag,  *)
(* the combined check.                                                     *)
(***************************************************************************)
\* The flag each correlation handler stores before the combined check.
FlagStoredBy(event) ==
    CASE event = PBM -> PBM
      [] event = PRM -> PRM
      [] event = AMD -> AMD
      [] event = CAMD -> AMD

\* The Value of each handler's primitive record.
ValueOf(event) ==
    IF event \in {PBM, AMD, "STATUS_MODEM_ON", "ALARM_METER_TEMPER", "ALARM_TEMPERATURE"}
      THEN "1" ELSE "0"

\* The handler with the flag stored before the timestamp is decoded.
CorrelationHandlerStoreFirst(st, s, p, event) ==
    LET st1 == StoreKey(st, Key(s, FlagStoredBy(event)), TRUE)
        r == checkCombinedConditions(st1, s, p, event)
    IN  IF ~DecodesTimestamp(p) THEN Res(st1, <<>>)
        ELSE Res(r.st, <<Rec(event, ValueOf(event), s, p)>> \o r.out)

\* handlePowerBackupModeEvent, handlePowerRestoreModeEvent,
\* handleAlarmMeterDeviceEvent and handleClearAlarmMeterDeviceEvent: the same
\* code up to the tag, the value and the flag stored.
CorrelationHandler(st, s, p, event) ==
    IF ~DecodesTimestamp(p) THEN Res(st, <<>>)
    ELSE
      LET st1 == StoreKey(st, Key(s, FlagStoredBy(event)), TRUE)
          r == checkCombinedConditions(st1, s, p, event)
      IN  Res(r.st, <<Rec(event, ValueOf(event), s, p)>> \o r.out)

handlePowerBackupModeEvent(st, s, p, event) == CorrelationHandler(st, s, p, event)

handlePowerRestoreModeEvent(st, s, p, event) == CorrelationHandler(st, s, p, event)

handleAlarmMeterDeviceEvent(st, s, p, event) == CorrelationHandler(st, s, p, event)

handleClearAlarmMeterDeviceEvent(st, s, p, event) == CorrelationHandler(st, s, p, event)

(***************************************************************************)
(* The handlers that only forward.                                         *)
(***************************************************************************)
\* A forwarding handler that also stores a flag named like its event.
handlePassThroughEventStoresFlag(st, s, p, event) ==
    IF ~DecodesTimestamp(p) THEN Res(st, <<>>)
    ELSE Res(StoreKey(st, Key(s, event), TRUE), <<Rec(event, ValueOf(event), s, p)>>)

\* handleAlarmMeterDeviceTemperEvent, handleClearAlarmMeterDeviceTemperEvent,
\* handleStatusModemOn, handleStatusModemOff, handleAlarmTemperatureEvent,
\* handleClearAlarmTemperatureEvent: the same code up to tag and value.
handlePassThroughEvent(st, s, p, event) ==
    IF ~DecodesTimestamp(p) THEN Res(st, <<>>)
    ELSE Res(st, <<Rec(event, ValueOf(event), s, p)>>)

\* Looks "message" up before the timestamp; the value is the message.
handleTemperatureEvent(st, s, p, event) ==
    IF ~p.json \/ p.msg = "missing" THEN Res(st, <<>>)
    ELSE IF p.ts # "ok" THEN Res(st, <<>>)
    ELSE Res(st, <<Rec(event, "message", s, p)>>)

\* msgData["message"].(string) is a single-value type assertion: it panics
\* when the field is absent or no string. The record has no EventName.
handleSetTemperatureEvents(st, s, p) ==
    IF ~DecodesTimestamp(p) THEN Res(st, <<>>)
    ELSE IF p.msg \in {"missing", "other"} THEN Panic(st)
    ELSE Res(st, <<Rec("", "number", s, p)>>)

\* Reads no timestamp. The record is published when the lookup answers 200;
\* its Msg and Time are left unset.
handleGeolocationEvent(st, p, s, event, geo) ==
    IF ~p.json \/ p.msg \in {"missing", "other"} THEN Res(st, <<>>)
    ELSE IF p.msg # "coords" THEN Res(st, <<>>)
    ELSE IF geo # "ok" THEN Res(st, <<>>)
    ELSE Res(st, <<Rec(event, "location", s, NonJson)>>)

\* getTimestamp: a JSON number or a string, else an error.
getTimestamp(p) == p.ts \in {"number", "badstr", "ok"}

\* The early returns of the subscribe callback.
CallbackRejects(p) == ~p.json \/ p.event = "" \/ ~getTimestamp(p)

\* The subscribe callback with a default branch that falls into the power
\* backup handler.
OnMessageDefaultFallsThrough(st, t, p, geo) ==
    IF CallbackRejects(p) THEN Res(st, <<>>)
    ELSE
      LET senderID == SenderOf(t)
          event == p.event
      IN  CASE event = "TEMPERATURE" -> handleTemperatureEvent(st, senderID, p, event)
            [] event \in PassThroughKinds -> handlePassThroughEvent(st, senderID, p, event)
            [] event = PRM -> handlePowerRestoreModeEvent(st, senderID, p, event)
            [] event = "SET_TEMPERATURE" -> handleSetTemperatureEvents(st, senderID, p)
            [] event = AMD -> handleAlarmMeterDeviceEvent(st, senderID, p, event)
            [] event = CAMD -> handleClearAlarmMeterDeviceEvent(st, senderID, p, event)
            [] event = "GEOLOCATION" -> handleGeolocationEvent(st, p, senderID, event, geo)
            [] OTHER -> handlePowerBackupModeEvent(st, senderID, p, PBM)

\* The subscribe callback: the early returns, the sender id taken from the
\* topic, the switch on the event name.  geo is what the geolocation lookup
\* answers, should the handler ask.
OnMessage(st, t, p, geo) ==
    IF CallbackRejects(p) THEN Res(st, <<>>)
    ELSE
      LET senderID == SenderOf(t)
          event == p.event
      IN  CASE event = "TEMPERATURE" -> handleTemperatureEvent(st, senderID, p, event)
            [] event \in PassThroughKinds -> handlePassThroughEvent(st, senderID, p, event)
            [] event = PBM -> handlePowerBackupModeEvent(st, senderID, p, event)
            [] event = PRM -> handlePowerRestoreModeEvent(st, senderID, p, event)
            [] event = "SET_TEMPERATURE" -> handleSetTemperatureEvents(st, senderID, p)
            [] event = AMD -> handleAlarmMeterDeviceEvent(st, senderID, p, event)
            [] event = CAMD -> handleClearAlarmMeterDeviceEvent(st, senderID, p, event)
            [] event = "GEOLOCATION" -> handleGeolocationEvent(st, p, senderID, event, geo)
            [] OTHER -> Res(st, <<>>)

(***************************************************************************)
(* The sink: processAndSaveData and sendDataPoint.  Each logs its failure  *)
(* and returns nothing to its caller.                                      *)
(***************************************************************************)
SinkOutcomes == [db : BOOLEAN, pub : BOOLEAN]

\* db.Exec of the insert: attempted, its error logged, nothing returned.
processAndSaveData(rec, o) == [tried |-> TRUE, ok |-> o.db]

\* Publish on DATAPOINTS: the values of a record always marshal, so the
\* publish is attempted; its error is logged, nothing returned.
sendDataPoint(rec, o) == [tried |-> TRUE, ok |-> o.pub]

\* The two sink calls with the publish skipped after a failed insert.
EmitStopsOnError(rec, o) ==
    [rec |-> rec, db |-> processAndSaveData(rec, o),
     pub |-> IF o.db THEN sendDataPoint(rec, o) ELSE [tried |-> FALSE, ok |-> FALSE]]

\* The persist and the publish attempt made for one record: the two calls
\* follow each other unconditionally (the geolocation handler publishes
\* first and then runs its own insert).
Emit(rec, o) ==
    [rec |-> rec, db |-> processAndSaveData(rec, o), pub |-> sendDataPoint(rec, o)]

EmitAll(out, os) == [i \in 1..Len(out) |-> Emit(out[i], os[i])]

\* The number of persist ("db") or publish ("pub") attempts among `sunk`.
Tried(sunk, which) == Cardinality({i \in 1..Len(sunk) : sunk[i][which].tried})

SinkFailed(sunk) == \E i \in 1..Len(sunk) : ~sunk[i].db.ok \/ ~sunk[i].pub.ok

\* The map restored to what it was before the callback when a sink call
\* failed.
AfterSinkRollsBack(st, r, sunk) == IF SinkFailed(sunk) THEN st ELSE r.st

\* The sink calls return nothing to the handler: the map after the callback
\* is the one the handler left, whatever the sink answered.
AfterSink(st, r, sunk) == r.st

\* The POWER_PLN values among the records of a run, in order.
RECURSIVE PlnValues(_)
PlnValues(out) ==
    IF out = <<>> THEN <<>>
    ELSE (IF Head(out).event = "POWER_PLN" THEN <<Head(out).value>> ELSE <<>>)
         \o PlnValues(Tail(out))

(***************************************************************************)
(* One delivered message: the subscribe callback and the handler it calls. *)
(***************************************************************************)
Init ==
    /\ eventState = EmptyMap
    /\ plnLog = [s \in Senders |-> <<>>]
    /\ seen = [s \in Senders |-> {}]
    /\ step = [outcome |-> "none", sender |-> "", nrec |-> 0, sinkErr |-> FALSE,
               persists |-> 0, publishes |-> 0]
    /\ n = 0
    /\ crashed = FALSE
    /\ tasks = <<>>

\* What became of payload p when its callback ran with result r.
Outcome(p, r) ==
    IF CallbackRejects(p) THEN "rejected"
    ELSE IF p.event \notin EventKinds THEN "unhandled"
    ELSE IF r.panic THEN "panicked"
    ELSE IF r.out = <<>> THEN "dropped"
    ELSE "handled"

\* The state after the callback for payload p on topic t has run with
\* result r and the sink has answered os to the records of r.
Run(t, p, r) ==
    /\ ~crashed
    /\ n' = n + 1
    /\ UNCHANGED tasks
    /\ crashed' = r.panic
    /\ \E os \in [1..Len(r.out) -> SinkOutcomes] :
         LET sunk == EmitAll(r.out, os)
         IN  /\ eventState' = AfterSink(eventState, r, sunk)
             /\ step' = [outcome |-> Outcome(p, r), sender |-> SenderOf(t),
                          nrec |-> Len(r.out), sinkErr |-> SinkFailed(sunk),
                          persists |-> Tried(sunk, "db"),
                          publishes |-> Tried(sunk, "pub")]
    /\ plnLog' = [plnLog EXCEPT ![SenderOf(t)] = @ \o PlnValues(r.out)]
    /\ seen' = IF p.event \in FlagNames /\ DecodesTimestamp(p) /\ ~CallbackRejects(p)
                 THEN [seen EXCEPT ![SenderOf(t)] = @ \cup {p.event}]
                 ELSE seen

Deliver(t, p, r) == n < MaxMsgs /\ Run(t, p, r)

\* The callback runs for payload p on topic t.
Handle(t, p, geo) == Deliver(t, p, OnMessage(eventState, t, p, geo))

Dispatched(p, kinds) == ~CallbackRejects(p) /\ p.event \in kinds

\* Not JSON, no "event" string or no usable "timestamp": logged, dropped.
RejectMessage(t, p) == CallbackRejects(p) /\ Handle(t, p, "ok")

\* The default branch of the switch.
UnhandledMessage(t, p) ==
    ~CallbackRejects(p) /\ p.event \notin EventKinds /\ Handle(t, p, "ok")

TemperatureMessage(t, p) == Dispatched(p, {"TEMPERATURE"}) /\ Handle(t, p, "ok")

PassThroughMessage(t, p) == Dispatched(p, PassThroughKinds) /\ Handle(t, p, "ok")

SetTemperatureMessage(t, p) == Dispatched(p, {"SET_TEMPERATURE"}) /\ Handle(t, p, "ok")

GeolocationMessage(t, p) ==
    Dispatched(p, {"GEOLOCATION"}) /\ \E geo \in GeoResults : Handle(t, p, geo)

PowerBackupModeMessage(t, p) == Dispatched(p, {PBM}) /\ Handle(t, p, "ok")

PowerRestoreModeMessage(t, p) == Dispatched(p, {PRM}) /\ Handle(t, p, "ok")

AlarmMeterDeviceMessage(t, p) == Dispatched(p, {AMD}) /\ Handle(t, p, "ok")

ClearAlarmMeterDeviceMessage(t, p) == Dispatched(p, {CAMD}) /\ Handle(t, p, "ok")

Next ==
    \/ \E t \in Topics, p \in Payloads : RejectMessage(t, p)
    \/ \E t \in Topics, p \in Payloads : UnhandledMessage(t, p)
    \/ \E t \in Topics, p \in Payloads : TemperatureMessage(t, p)
    \/ \E t \in Topics, p \in Payloads : PassThroughMessage(t, p)
    \/ \E t \in Topics, p \in Payloads : SetTemperatureMessage(t, p)
    \/ \E t \in Topics, p \in Payloads : GeolocationMessage(t, p)
    \/ \E t \in Topics, p \in Payloads : PowerBackupModeMessage(t, p)
    \/ \E t \in Topics, p \in Payloads : PowerRestoreModeMessage(t, p)
    \/ \E t \in Topics, p \in Payloads : AlarmMeterDeviceMessage(t, p)
    \/ \E t \in Topics, p \in Payloads : ClearAlarmMeterDeviceMessage(t, p)

Spec == Init /\ [][Next]_vars

\* The callback runs for a well-formed event of correlation kind e of
\* sender s.
CorrelationEvent(s, e) ==
    /\ n < MaxCorrMsgs
    /\ Run(TopicOf(s), WellFormedPayload(e),
           OnMessage(eventState, TopicOf(s), WellFormedPayload(e), "ok"))

NextCorr == \E s \in Senders, e \in FlagNames : CorrelationEvent(s, e)

\* The behaviours in which only well-formed correlation events arrive.
SpecCorr == Init /\ [][NextCorr]_vars

(***************************************************************************)
(* Vocabulary of the properties.                                           *)
(***************************************************************************)
HasFlag(st, s, f) == Key(s, f) \in DOMAIN st

FlagsOf(st, s) == {f \in FlagNames : HasFlag(st, s, f)}

\* The callback ran for payload p on topic t in this step.
Callback(t, p) == \E geo \in GeoResults : Handle(t, p, geo)

\* The payloads of the given kinds that the callback and the timestamp
\* decoding of the handlers accept.
WellFormed(kinds) ==
    UNION {{[json |-> TRUE, event |-> e, ts |-> "ok", msg |-> m] : m \in MsgShapesOf(e)} :
           e \in kinds}

\* This step delivered a message of sender s.
DeliveredFor(s) == n' = n + 1 /\ step'.sender = s

\* This step processed a well-formed event of one of the kinds for sender s.
Processed(s, kinds) ==
    /\ DeliveredFor(s)
    /\ \E p \in WellFormed(kinds) : Callback(TopicOf(s), p)

\* The POWER_PLN values this step emitted for sender s.
EmittedNow(s) == SubSeq(plnLog'[s], Len(plnLog[s]) + 1, Len(plnLog'[s]))

\* The value of the last POWER_PLN record emitted for s so far.
LastPln(s) == IF plnLog[s] = <<>> THEN "none" ELSE plnLog[s][Len(plnLog[s])]

Count(seq, v) == Cardinality({i \in 1..Len(seq) : seq[i] = v})

BothAlarms(st, s) == HasFlag(st, s, PBM) /\ HasFlag(st, s, AMD)

(***************************************************************************)
(* C1.  Conjunction correctness: a well-formed POWER_BACKUP_MODE or        *)
(* ALARM_METER_DEVICE event for S emits POWER_PLN(1) if and only if, after *)
(* its flag update, both alarm flags of S are present and the last         *)
(* POWER_PLN emitted for S is not already a 1.                             *)
(***************************************************************************)
C1_ConjunctionEdgeTriggered ==
    [][\A s \in Senders :
          Processed(s, {PBM, AMD}) =>
              (EmittedNow(s) = <<"1">>
                  <=> (BothAlarms(eventState', s) /\ LastPln(s) # "1"))
              /\ EmittedNow(s) \in {<<>>, <<"1">>}]_vars

(***************************************************************************)
(* C2.  No double-fire: as long as no POWER_RESTORE_MODE or                *)
(* CLEAR_ALARM_METER_DEVICE event has been processed for S, at most one    *)
(* POWER_PLN(1) has been emitted for S.                                    *)
(***************************************************************************)
C2_NoDoubleFire ==
    \A s \in Senders :
        seen[s] \cap {PRM, CAMD} = {} => Count(plnLog[s], "1") <= 1

(***************************************************************************)
(* C3.  Edge-triggered clear: POWER_PLN(0) is never emitted twice for S    *)
(* without a POWER_PLN(1) for S in between.                                *)
(***************************************************************************)
C3_NoRepeatedClear ==
    \A s \in Senders :
        \A i \in 1..(Len(plnLog[s]) - 1) :
            ~(plnLog[s][i] = "0" /\ plnLog[s][i + 1] = "0")

(***************************************************************************)
(* C4.  Disjunction correctness: a well-formed POWER_RESTORE_MODE or       *)
(* CLEAR_ALARM_METER_DEVICE event for S sets its one-shot flag and so      *)
(* emits exactly one POWER_PLN(0), whatever the other flags of S are, and  *)
(* afterwards the one-shot flag it set is gone from the store.             *)
(***************************************************************************)
C4_DisjunctionEmitsAndConsumes ==
    [][\A s \in Senders, e \in {PRM, CAMD} :
          Processed(s, {e}) =>
              /\ EmittedNow(s) = <<"0">>
              /\ ~HasFlag(eventState', s, e)]_vars

(***************************************************************************)
(* C5.  One flag alone never emits: a delivery for S after which exactly   *)
(* one of S's POWER_BACKUP_MODE and ALARM_METER_DEVICE flags is present    *)
(* emits no POWER_PLN record; POWER_BACKUP_MODE(S) on the empty store      *)
(* emits nothing derived and ALARM_METER_DEVICE(S) right after it emits    *)
(* exactly one POWER_PLN(1).                                               *)
(***************************************************************************)
C5_OneFlagAloneNeverEmits ==
    [][\A s \in Senders :
          /\ DeliveredFor(s)
               /\ (HasFlag(eventState', s, PBM) # HasFlag(eventState', s, AMD))
             => EmittedNow(s) = <<>>
          /\ Processed(s, {PBM}) /\ eventState = EmptyMap
             => EmittedNow(s) = <<>> /\ DOMAIN eventState' = {Key(s, PBM)}
          /\ Processed(s, {AMD}) /\ DOMAIN eventState = {Key(s, PBM)}
             => EmittedNow(s) = <<"1">>]_vars

\* POWER_BACKUP_MODE(A) then ALARM_METER_DEVICE(A) from the empty store:
\* one POWER_PLN(1).
C5_Witness ==
    /\ n = 2
    /\ seen["A"] = {PBM, AMD}
    /\ DOMAIN eventState = {Key("A", PBM), Key("A", AMD)}
    /\ plnLog["A"] = <<"1">>

(***************************************************************************)
(* C6.  Isolation: a delivery for one sender changes neither the flags     *)
(* held for another sender nor the POWER_PLN records emitted for it.       *)
(***************************************************************************)
C6_Isolation ==
    [][\A a \in Senders : \A b \in Senders \ {a} :
          DeliveredFor(a)
             => /\ FlagsOf(eventState', b) = FlagsOf(eventState, b)
                /\ plnLog'[b] = plnLog[b]]_vars

\* The flags the code stores while it handles an event of kind e: the one
\* of the handler and, in handlePowerPln or handleClearPowerPlnEvent, the
\* one named like the event.
FlagsSetBy(e) == {FlagStoredBy(e), e}

(***************************************************************************)
(* C8.  State Store invariant: every stored value is true, and the key of  *)
(* (S, F) is present only if an event processed for S set flag F.          *)
(***************************************************************************)
C8_StoreOnlyHoldsSetFlags ==
    /\ \A k \in DOMAIN eventState : eventState[k] = TRUE
    /\ \A s \in Senders, f \in FlagNames :
          HasFlag(eventState, s, f) => \E e \in seen[s] : f \in FlagsSetBy(e)

\* The payloads that fail decoding: not JSON, no event field, a timestamp
\* that is missing, no string or no number.
Malformed == {p \in Payloads : ~p.json \/ p.event = "" \/ p.ts # "ok"}

\* The geolocation handler reads no timestamp: the callback lets a numeric
\* or unparseable string timestamp pass and the handler goes on.
GeolocationIgnoresTimestamp(p) ==
    p.json /\ p.event = "GEOLOCATION" /\ p.ts \in {"number", "badstr"}

(***************************************************************************)
(* C9.  Decode failure is all-or-nothing: a message that is not JSON, has  *)
(* no event field, or whose timestamp is missing, of the wrong type or     *)
(* unparseable leaves the store as it was, emits no record and does not    *)
(* stop the process, for every event kind.                                 *)
(***************************************************************************)
C9_DecodeFailureDropsMessage ==
    \A s \in Senders, p \in Malformed, geo \in GeoResults :
        LET r == OnMessage(eventState, TopicOf(s), p, geo)
        IN  r.st = eventState /\ r.out = <<>> /\ ~r.panic

\* C9 as amended: the same for every kind but GEOLOCATION; a GEOLOCATION
\* message whose timestamp is a number or an unparseable string is processed
\* all the same: it leaves the store as it was and may emit its own record,
\* never a POWER_PLN one.  A well-formed POWER_BACKUP_MODE sets the flag in
\* whatever state it arrives.
C9_DecodeFailureDropsMessageButGeolocation ==
    \A s \in Senders :
        /\ \A p \in Malformed, geo \in GeoResults :
              LET r == OnMessage(eventState, TopicOf(s), p, geo)
              IN  /\ r.st = eventState
                  /\ ~r.panic
                  /\ PlnValues(r.out) = <<>>
                  /\ ~GeolocationIgnoresTimestamp(p) => r.out = <<>>
        /\ HasFlag(OnMessage(eventState, TopicOf(s), WellFormedPayload(PBM), "ok").st, s, PBM)

\* A message of A was dropped while A's POWER_BACKUP_MODE flag was stored,
\* and the flag is still there.
C9_Witness ==
    /\ step.sender = "A"
    /\ step.outcome \in {"rejected", "dropped"}
    /\ step.nrec = 0
    /\ HasFlag(eventState, "A", PBM)

(***************************************************************************)
(* C10.  No failure is fatal: the process never terminates, whatever the   *)
(* kind and the payload of a message and whatever the sink answers.        *)
(***************************************************************************)
C10_NeverCrashes == ~crashed

(***************************************************************************)
(* C11.  Unknown event kinds are dropped: a delivery whose event name is   *)
(* outside the dispatch switch changes no flag of any sender, hands no     *)
(* record to the sink, emits no POWER_PLN and leaves the process running.  *)
(***************************************************************************)
C11_UnknownKindDropped ==
    [][n' = n + 1 /\ step'.outcome = "unhandled"
         => /\ eventState' = eventState
            /\ plnLog' = plnLog
            /\ seen' = seen
            /\ step'.nrec = 0
            /\ ~crashed']_vars

\* An unknown kind was delivered for A after A's POWER_BACKUP_MODE and
\* ALARM_METER_DEVICE: the flags are still there and the process runs.
C11_Witness ==
    /\ n = 3
    /\ step.outcome = "unhandled"
    /\ step.sender = "A"
    /\ FlagsOf(eventState, "A") = {PBM, AMD}
    /\ ~crashed

\* The payloads every handler accepts in full: a parseable string timestamp
\* and the "message" the handler of the kind reads.
Complete(e) ==
    [json |-> TRUE, event |-> e, ts |-> "ok",
     msg |-> CASE e \in {"TEMPERATURE", "SET_TEMPERATURE"} -> "text"
               [] e = "GEOLOCATION" -> "coords"
               [] OTHER -> "missing"]

(***************************************************************************)
(* C12.  Primitive pass-through: a well-formed event of a known kind for S *)
(* hands to the sink exactly one primitive record, which carries S and the *)
(* event's name, and besides it at most one POWER_PLN record, whose value  *)
(* is 0 or 1.                                                              *)
(***************************************************************************)
C12_PrimitivePassThrough ==
    \A s \in Senders, e \in EventKinds :
        LET r == OnMessage(eventState, TopicOf(s), Complete(e), "ok")
            prims == {i \in 1..Len(r.out) : r.out[i].event # "POWER_PLN"}
        IN  /\ ~r.panic
            /\ Cardinality(prims) = 1
            /\ \A i \in prims : r.out[i].event = e /\ r.out[i].sender = s
            /\ Len(r.out) <= 2
            /\ \A i \in 1..Len(PlnValues(r.out)) : PlnValues(r.out)[i] \in {"0", "1"}

(***************************************************************************)
(* C13.  Recovery is always available: whenever the last POWER_PLN record  *)
(* emitted for S is a 1, a well-formed POWER_RESTORE_MODE event for S      *)
(* alone, and a well-formed CLEAR_ALARM_METER_DEVICE event for S alone,    *)
(* emits POWER_PLN(0) for S.                                               *)
(***************************************************************************)
C13_RecoveryAvailable ==
    \A s \in Senders, e \in {PRM, CAMD} :
        LastPln(s) = "1"
           => PlnValues(OnMessage(eventState, TopicOf(s), WellFormedPayload(e), "ok").out)
                 = <<"0">>

(***************************************************************************)
(* C14.  Sink failures do not disturb correlation: when a persist or       *)
(* publish attempt of a delivery of a well-formed correlation event for S  *)
(* fails, the store and the POWER_PLN emission are those the handler       *)
(* computes; the flag of a POWER_BACKUP_MODE or ALARM_METER_DEVICE event   *)
(* is present afterwards and its conjunction is evaluated on it; the flag  *)
(* stored by a clearing event is present afterwards unless its POWER_PLN(0)*)
(* was emitted; and no alarm flag that S held is removed.                  *)
(***************************************************************************)
C14_SinkFailureKeepsCorrelation ==
    [][\A s \in Senders :
          DeliveredFor(s) /\ step'.sinkErr =>
              \A e \in FlagNames :
                  Processed(s, {e}) =>
                      LET r == OnMessage(eventState, TopicOf(s), WellFormedPayload(e), "ok")
                      IN  /\ eventState' = r.st
                          /\ EmittedNow(s) = PlnValues(r.out)
                          /\ FlagsOf(eventState, s) \cap {PBM, AMD} \subseteq FlagsOf(eventState', s)
                          /\ e \in {PBM, AMD} =>
                                /\ HasFlag(eventState', s, e)
                                /\ FlagsOf(eventState, s) \subseteq FlagsOf(eventState', s)
                                /\ EmittedNow(s) = <<"1">> <=> BothAlarms(eventState', s)
                          /\ e \in {PRM, CAMD} =>
                                \/ HasFlag(eventState', s, FlagStoredBy(e))
                                \/ EmittedNow(s) = <<"0">>]_vars

\* ALARM_METER_DEVICE(A) after POWER_BACKUP_MODE(A), with a failing sink
\* attempt among those of its two records: both flags are stored and the
\* POWER_PLN(1) was emitted.
C14_Witness ==
    /\ step.sender = "A"
    /\ step.sinkErr
    /\ step.nrec = 2
    /\ DOMAIN eventState = {Key("A", PBM), Key("A", AMD)}
    /\ plnLog["A"] = <<"1">>

(***************************************************************************)
(* C15.  Both sink attempts always happen: for every record a delivery     *)
(* hands to the sink one persist attempt and one publish attempt are made, *)
(* also when attempts fail, and a failing attempt does not stop the        *)
(* process.                                                                *)
(***************************************************************************)
C15_BothSinkAttempts ==
    /\ step.persists = step.nrec
    /\ step.publishes = step.nrec
    /\ step.sinkErr => ~crashed

\* A delivery handed a primitive and a POWER_PLN record to the sink, a sink
\* attempt failed, and two persist and two publish attempts were made.
C15_Witness ==
    /\ step.nrec = 2
    /\ step.sinkErr
    /\ step.persists = 2
    /\ step.publishes = 2

(***************************************************************************)
(* C17.  Derived-event provenance: every POWER_PLN record that the         *)
(* callback for a message of sender S emits carries S as its sender and    *)
(* the payload (and with it the timestamp) of that very message.           *)
(***************************************************************************)
C17_PlnProvenance ==
    \A s \in Senders, p \in Payloads :
        LET r == OnMessage(eventState, TopicOf(s), p, "ok")
        IN  \A i \in 1..Len(r.out) :
                r.out[i].event = "POWER_PLN"
                   => r.out[i].sender = s /\ r.out[i].msg = p

\* A POWER_PLN(1) was emitted for A by its last delivery while B holds
\* flags too, and a further event of A or B emits POWER_PLN again.
C17_Witness ==
    /\ step.sender = "A"
    /\ step.nrec = 2
    /\ plnLog["A"] = <<"1">>
    /\ FlagsOf(eventState, "B") # {}
    /\ PlnValues(OnMessage(eventState, TopicOf("A"), WellFormedPayload(PRM), "ok").out) = <<"0">>

(***************************************************************************)
(* C18.  CLEAR_ALARM_METER_DEVICE is symmetric to POWER_RESTORE_MODE: a    *)
(* well-formed CLEAR_ALARM_METER_DEVICE event for S leaves S's             *)
(* ALARM_METER_DEVICE and POWER_BACKUP_MODE flags as they were, and what   *)
(* it emits and leaves of the one-shot flags is what POWER_RESTORE_MODE    *)
(* does in the same state, with the two one-shot flags exchanged.          *)
(***************************************************************************)
C18_ClearAlarmSymmetric ==
    \A s \in Senders :
        LET c == OnMessage(eventState, TopicOf(s), WellFormedPayload(CAMD), "ok")
            r == OnMessage(eventState, TopicOf(s), WellFormedPayload(PRM), "ok")
        IN  /\ HasFlag(c.st, s, AMD) = HasFlag(eventState, s, AMD)
            /\ HasFlag(c.st, s, PBM) = HasFlag(eventState, s, PBM)
            /\ PlnValues(c.out) = PlnValues(r.out)
            /\ HasFlag(eventState, s, PRM) = HasFlag(eventState, s, CAMD)
                  => HasFlag(c.st, s, CAMD) = HasFlag(r.st, s, PRM)

(***************************************************************************)
(* C19.  Store keys are unique per (senderId, flag): the key under which   *)
(* the store holds the flag of a pair of a non-empty sender id and a flag  *)
(* name is the key of no other pair, so that setting or clearing one pair  *)
(* never sets or clears another.                                           *)
(***************************************************************************)
C19_KeysUnique ==
    \A s1 \in Senders, s2 \in Senders, f1 \in FlagNames, f2 \in FlagNames :
        HasFlag(eventState, s1, f1) /\ Key(s1, f1) = Key(s2, f2)
           => s1 = s2 /\ f1 = f2

(***************************************************************************)
(* C20.  One-shot flags do not outlive their event: between deliveries     *)
(* the store holds neither the POWER_RESTORE_MODE nor the                  *)
(* CLEAR_ALARM_METER_DEVICE flag of any sender.                            *)
(***************************************************************************)
C20_NoOneShotFlagAtRest ==
    \A s \in Senders : ~HasFlag(eventState, s, PRM) /\ ~HasFlag(eventState, s, CAMD)

\* The kinds outside the POWER_PLN correlation.
NonCorrelationKinds == EventKinds \ FlagNames

(***************************************************************************)
(* C21.  Pass-through kinds do not touch correlation state: the callback   *)
(* for an event of kind TEMPERATURE, ALARM_METER_TEMPER,                   *)
(* CLEAR_ALARM_METER_TEMPER, STATUS_MODEM_ON, STATUS_MODEM_OFF,            *)
(* ALARM_TEMPERATURE, CLEAR_ALARM_TEMPERATURE, SET_TEMPERATURE or          *)
(* GEOLOCATION, whatever its payload, and the sink calls of its record,    *)
(* whatever they answer, leave the store as it was for every sender and    *)
(* emit no POWER_PLN record.                                               *)
(***************************************************************************)
C21_PassThroughLeavesStore ==
    \A s \in Senders, geo \in GeoResults :
        \A p \in {q \in Payloads : q.event \in NonCorrelationKinds} :
            LET r == OnMessage(eventState, TopicOf(s), p, geo)
            IN  /\ r.st = eventState
                /\ PlnValues(r.out) = <<>>
                /\ \A os \in [1..Len(r.out) -> SinkOutcomes] :
                      AfterSink(eventState, r, EmitAll(r.out, os)) = eventState

\* B delivered an event outside the correlation, whose record went to the
\* sink with a failing attempt, while A held its POWER_BACKUP_MODE flag: the
\* store holds that flag and nothing else, and no POWER_PLN was emitted.
C21_Witness ==
    /\ step.sender = "B"
    /\ step.outcome = "handled"
    /\ step.sinkErr
    /\ seen["B"] = {}
    /\ DOMAIN eventState = {Key("A", PBM)}
    /\ plnLog = [s \in Senders |-> <<>>]

(***************************************************************************)
(* C23.  POWER_PLN(1) needs both real alarms: a POWER_PLN(1) has been      *)
(* emitted for S only if S has delivered a well-formed POWER_BACKUP_MODE   *)
(* event and a well-formed ALARM_METER_DEVICE event.                       *)
(***************************************************************************)
C23_PlnOneNeedsBothAlarmEvents ==
    \A s \in Senders :
        Count(plnLog[s], "1") > 0 => {PBM, AMD} \subseteq seen[s]

(***************************************************************************)
(* C24.  No restore before loss: a POWER_PLN(0) emitted for S is preceded  *)
(* by a POWER_PLN(1) emitted for S.                                        *)
(***************************************************************************)
C24_NoRestoreBeforeLoss ==
    \A s \in Senders :
        \A i \in 1..Len(plnLog[s]) :
            plnLog[s][i] = "0" => \E j \in 1..(i - 1) : plnLog[s][j] = "1"

(***************************************************************************)
(* C25.  Alarm flags are monotonic: no delivery, of any kind and for any   *)
(* sender, removes a POWER_BACKUP_MODE or ALARM_METER_DEVICE flag that is  *)
(* present, so a conjunction that holds for a sender keeps holding.        *)
(***************************************************************************)
C25_AlarmFlagsMonotonic ==
    [][\A s \in Senders :
          /\ \A f \in {PBM, AMD} : HasFlag(eventState, s, f) => HasFlag(eventState', s, f)
          /\ BothAlarms(eventState, s) => BothAlarms(eventState', s)]_vars

(***************************************************************************)
(* Concurrent callbacks.  The handlers take no lock: between two accesses  *)
(* of eventState and between an access and an emit of one callback, other  *)
(* callbacks may run.  Each step below is one Store, Load or Delete on the *)
(* sync.Map or one emit, of a callback for a well-formed correlation       *)
(* event.                                                                  *)
(***************************************************************************)
SetTask(i, pc, alarm, power) ==
    tasks' = [tasks EXCEPT ![i] = [@ EXCEPT !.pc = pc, !.alarm = alarm, !.power = power]]

Goto(i, pc) == SetTask(i, pc, tasks[i].alarm, tasks[i].power)

\* Callback i has performed `op` and goes on at pc.
Did(i, pc, op) ==
    tasks' = [tasks EXCEPT ![i] = [@ EXCEPT !.pc = pc, !.did = Append(@, op)]]

At(i, pc) == i \in DOMAIN tasks /\ tasks[i].pc = pc

Loaded(k) == LET l == LoadKey(eventState, k) IN l.ok /\ l.v

\* A message arrives and its callback starts.
Start(s, e) ==
    /\ tasks' = Append(tasks, [sender |-> s, event |-> e, pc |-> "start",
                               alarm |-> FALSE, power |-> FALSE, did |-> <<>>])
    /\ UNCHANGED <<eventState, plnLog, seen, step, n, crashed>>

Spawn(s, e) == Len(tasks) < MaxTasks /\ Start(s, e)

\* The handler going to its Store without the sink calls of the primitive
\* record.
EmitPrimitiveSkipped(i) ==
    /\ At(i, "start")
    /\ Goto(i, "store")
    /\ UNCHANGED <<eventState, plnLog, seen, step, n, crashed>>

\* processAndSaveData and sendDataPoint of the primitive record.
EmitPrimitive(i) ==
    /\ At(i, "start")
    /\ Did(i, "store", "primitive")
    /\ UNCHANGED <<eventState, plnLog, seen, step, n, crashed>>

\* eventState.Store of the handler.
StoreFlag(i) ==
    /\ At(i, "store")
    /\ eventState' = StoreKey(eventState, Key(tasks[i].sender, FlagStoredBy(tasks[i].event)), TRUE)
    /\ Did(i, "ccLoadAlarm", "flag")
    /\ UNCHANGED <<plnLog, seen, step, n, crashed>>

\* checkCombinedConditions: the two Loads and the test.
CheckLoadAlarm(i) ==
    /\ At(i, "ccLoadAlarm")
    /\ SetTask(i, "ccLoadPower", Loaded(Key(tasks[i].sender, AMD)), FALSE)
    /\ UNCHANGED <<eventState, plnLog, seen, step, n, crashed>>

CheckLoadPower(i) ==
    /\ At(i, "ccLoadPower")
    /\ LET power == Loaded(Key(tasks[i].sender, PBM))
       IN  SetTask(i, IF tasks[i].alarm /\ power
                        THEN (IF tasks[i].event \in {PBM, AMD} THEN "plnStore" ELSE "clrStore")
                        ELSE "done",
                   tasks[i].alarm, power)
    /\ UNCHANGED <<eventState, plnLog, seen, step, n, crashed>>

\* handlePowerPln: the Store, the two Loads, the emit.
PlnStore(i) ==
    /\ At(i, "plnStore")
    /\ eventState' = StoreKey(eventState, Key(tasks[i].sender, tasks[i].event), TRUE)
    /\ Goto(i, "plnLoadAlarm")
    /\ UNCHANGED <<plnLog, seen, step, n, crashed>>

PlnLoadAlarm(i) ==
    /\ At(i, "plnLoadAlarm")
    /\ SetTask(i, "plnLoadPower", Loaded(Key(tasks[i].sender, AMD)), FALSE)
    /\ UNCHANGED <<eventState, plnLog, seen, step, n, crashed>>

PlnLoadPower(i) ==
    /\ At(i, "plnLoadPower")
    /\ LET power == Loaded(Key(tasks[i].sender, PBM))
       IN  SetTask(i, IF tasks[i].alarm /\ power THEN "plnEmit" ELSE "done",
                   tasks[i].alarm, power)
    /\ UNCHANGED <<eventState, plnLog, seen, step, n, crashed>>

PlnEmit(i) ==
    /\ At(i, "plnEmit")
    /\ plnLog' = [plnLog EXCEPT ![tasks[i].sender] = Append(@, "1")]
    /\ Did(i, "done", "pln")
    /\ UNCHANGED <<eventState, seen, step, n, crashed>>

\* A Delete of key k now: of a key that is there, or of an absent one.
DeleteOp(k) == IF k \in DOMAIN eventState THEN "delete" ELSE "deleteAbsent"

\* handleClearPowerPlnEvent: the Store, the two Loads, the emit, the Deletes.
ClearStore(i) ==
    /\ At(i, "clrStore")
    /\ eventState' = StoreKey(eventState, Key(tasks[i].sender, tasks[i].event), TRUE)
    /\ Goto(i, "clrLoadAlarm")
    /\ UNCHANGED <<plnLog, seen, step, n, crashed>>

ClearLoadAlarm(i) ==
    /\ At(i, "clrLoadAlarm")
    /\ SetTask(i, "clrLoadPower", Loaded(Key(tasks[i].sender, CAMD)), FALSE)
    /\ UNCHANGED <<eventState, plnLog, seen, step, n, crashed>>

ClearLoadPower(i) ==
    /\ At(i, "clrLoadPower")
    /\ LET power == Loaded(Key(tasks[i].sender, PRM))
       IN  SetTask(i, IF tasks[i].alarm \/ power THEN "clrEmit" ELSE "done",
                   tasks[i].alarm, power)
    /\ UNCHANGED <<eventState, plnLog, seen, step, n, crashed>>

ClearEmit(i) ==
    /\ At(i, "clrEmit")
    /\ plnLog' = [plnLog EXCEPT ![tasks[i].sender] = Append(@, "0")]
    /\ Did(i, "clrDelAlarm", "pln")
    /\ UNCHANGED <<eventState, seen, step, n, crashed>>

ClearDeleteAlarm(i) ==
    /\ At(i, "clrDelAlarm")
    /\ eventState' = IF tasks[i].alarm
                       THEN DeleteKey(eventState, Key(tasks[i].sender, CAMD))
                       ELSE eventState
    /\ IF tasks[i].alarm
         THEN Did(i, "clrDelPower", DeleteOp(Key(tasks[i].sender, CAMD)))
         ELSE Goto(i, "clrDelPower")
    /\ UNCHANGED <<plnLog, seen, step, n, crashed>>

ClearDeletePower(i) ==
    /\ At(i, "clrDelPower")
    /\ eventState' = IF tasks[i].power
                       THEN DeleteKey(eventState, Key(tasks[i].sender, PRM))
                       ELSE eventState
    /\ IF tasks[i].power
         THEN Did(i, "done", DeleteOp(Key(tasks[i].sender, PRM)))
         ELSE Goto(i, "done")
    /\ UNCHANGED <<plnLog, seen, step, n, crashed>>

TaskIds == 1..MaxTasks

NextConc ==
    \/ \E s \in Senders, e \in FlagNames : Spawn(s, e)
    \/ \E i \in TaskIds : EmitPrimitive(i)
    \/ \E i \in TaskIds : StoreFlag(i)
    \/ \E i \in TaskIds : CheckLoadAlarm(i)
    \/ \E i \in TaskIds : CheckLoadPower(i)
    \/ \E i \in TaskIds : PlnStore(i)
    \/ \E i \in TaskIds : PlnLoadAlarm(i)
    \/ \E i \in TaskIds : PlnLoadPower(i)
    \/ \E i \in TaskIds : PlnEmit(i)
    \/ \E i \in TaskIds : ClearStore(i)
    \/ \E i \in TaskIds : ClearLoadAlarm(i)
    \/ \E i \in TaskIds : ClearLoadPower(i)
    \/ \E i \in TaskIds : ClearEmit(i)
    \/ \E i \in TaskIds : ClearDeleteAlarm(i)
    \/ \E i \in TaskIds : ClearDeletePower(i)

SpecConc == Init /\ [][NextConc]_vars

\* The steps of callback i that are no sink call: the Stores, Loads and
\* Deletes on the map.
MapStep(i) ==
    \/ StoreFlag(i)
    \/ CheckLoadAlarm(i)
    \/ CheckLoadPower(i)
    \/ PlnStore(i)
    \/ PlnLoadAlarm(i)
    \/ PlnLoadPower(i)
    \/ ClearStore(i)
    \/ ClearLoadAlarm(i)
    \/ ClearLoadPower(i)
    \/ ClearDeleteAlarm(i)
    \/ ClearDeletePower(i)

\* Concurrent callbacks whose goroutines keep running: every map step that
\* is due is taken.  db.Exec and token.Wait of a sink call return when the
\* database and the broker answer, which nothing guarantees: EmitPrimitive,
\* PlnEmit and ClearEmit, the steps that end a sink call, carry no fairness.
SpecConcFair == SpecConc /\ \A i \in TaskIds : WF_vars(MapStep(i))

(***************************************************************************)
(* C16.  The Engine never waits on the sink: every callback for a          *)
(* correlation event, once started, gets to apply its handler's Store, also*)
(* when the sink calls of its records never complete.                      *)
(***************************************************************************)
C16_FlagSetWithoutSink ==
    \A i \in TaskIds :
        (i \in DOMAIN tasks) ~> (i \in DOMAIN tasks /\ tasks[i].pc \notin {"start", "store"})

\* A step of callback i.
TaskStep(i) == EmitPrimitive(i) \/ PlnEmit(i) \/ ClearEmit(i) \/ MapStep(i)

\* The kinds whose callbacks can meet in the clearing path: the two clearing
\* kinds and POWER_BACKUP_MODE, which with the alarm flag that the
\* CLEAR_ALARM_METER_DEVICE handler stores opens that path.
RaceKinds == {PBM, PRM, CAMD}

\* An event of sender "A" arrives and its callback starts.
ArriveRace(e) == Len(tasks) < MaxRaceTasks /\ Start("A", e)

NextRace ==
    \/ \E e \in RaceKinds : ArriveRace(e)
    \/ \E i \in 1..MaxRaceTasks : TaskStep(i)

\* Concurrent callbacks for events of one sender.
SpecRace == Init /\ [][NextRace]_vars

\* Callback i performed `op`, and before it `earlier`.
DidBefore(i, earlier, op) ==
    \A j \in 1..Len(tasks[i].did) :
        tasks[i].did[j] = op => \E k \in 1..(j - 1) : tasks[i].did[k] = earlier

(***************************************************************************)
(* C26.  Emission order within one event: a callback for a correlation     *)
(* event stores the flag of its handler only after the sink calls of its   *)
(* primitive record have returned, and emits a POWER_PLN record only after *)
(* that Store; run by itself, a callback that emits POWER_PLN hands the    *)
(* sink the primitive record first and the POWER_PLN record second.        *)
(***************************************************************************)
C26_PrimitiveThenFlagThenPln ==
    /\ \A i \in DOMAIN tasks :
          /\ DidBefore(i, "primitive", "flag")
          /\ DidBefore(i, "flag", "pln")
          /\ tasks[i].pc = "start" => tasks[i].did = <<>>
    /\ eventState # EmptyMap \/ plnLog # [s \in Senders |-> <<>>]
          => \E i \in DOMAIN tasks : tasks[i].did # <<>> /\ tasks[i].did[1] = "primitive"
    /\ \A s \in Senders, e \in FlagNames :
          LET r == OnMessage(eventState, TopicOf(s), WellFormedPayload(e), "ok")
          IN  PlnValues(r.out) # <<>>
                 => /\ Len(r.out) = 2
                    /\ r.out[1].event = e
                    /\ r.out[2].event = "POWER_PLN"

\* A callback has emitted its primitive record, stored its flag and emitted
\* POWER_PLN, in this order.
C26_Witness ==
    \E i \in DOMAIN tasks :
        /\ Len(tasks[i].did) >= 3
        /\ SubSeq(tasks[i].did, 1, 3) = <<"primitive", "flag", "pln">>
        /\ plnLog[tasks[i].sender] # <<>>

\* Callback i performed `op` in this step.
DidNow(i, op) ==
    /\ i \in DOMAIN tasks
    /\ Len(tasks'[i].did) = Len(tasks[i].did) + 1
    /\ tasks'[i].did[Len(tasks'[i].did)] = op

(***************************************************************************)
(* C22.  Idempotent clearing: a Delete of a one-shot flag that is already  *)
(* absent, as the second of two interleaved callbacks that both loaded the *)
(* flag makes it, leaves the store unchanged, emits no record and raises   *)
(* no error; and deleting a key twice from any store reached gives the     *)
(* store that deleting it once gives.                                      *)
(***************************************************************************)
C22_ClearIdempotent ==
    [][/\ \A i \in 1..MaxRaceTasks :
             DidNow(i, "deleteAbsent")
                => eventState' = eventState /\ plnLog' = plnLog /\ ~crashed'
        /\ \A s \in Senders, f \in {PRM, CAMD} :
             LET once == DeleteKey(eventState, Key(s, f))
             IN  /\ DeleteKey(once, Key(s, f)) = once
                 /\ ~HasFlag(eventState, s, f) => once = eventState]_vars

\* A callback has deleted a one-shot flag that another callback had already
\* deleted.
C22_Witness ==
    \E i \in DOMAIN tasks :
        \E j \in 1..Len(tasks[i].did) : tasks[i].did[j] = "deleteAbsent"

\* The map and the POWER_PLN values per sender after the callbacks of the
\* tasks order[1], order[2], ... have run one after the other from `acc`.
RECURSIVE SerialRun(_, _, _)
SerialRun(order, k, acc) ==
    IF k > Len(order) THEN acc
    ELSE LET t == tasks[order[k]]
             r == CorrelationHandler(acc.st, t.sender, WellFormedPayload(t.event), t.event)
         IN  SerialRun(order, k + 1,
                       [st |-> r.st,
                        log |-> [acc.log EXCEPT ![t.sender] = @ \o PlnValues(r.out)]])

\* The orders in which the tasks can run one at a time.
Orders == {o \in [DOMAIN tasks -> DOMAIN tasks] : \A i, j \in DOMAIN tasks : o[i] = o[j] => i = j}

AllDone == tasks # <<>> /\ \A i \in DOMAIN tasks : tasks[i].pc = "done"

(***************************************************************************)
(* C7.  Per-sender atomicity: when concurrently running callbacks have all *)
(* finished, the flags of each sender and the multiset of POWER_PLN        *)
(* records emitted for it are those of some one-at-a-time execution of the *)
(* same events.                                                            *)
(***************************************************************************)
C7_SerialisablePerSender ==
    AllDone =>
        \A s \in Senders :
            \E o \in Orders :
                LET ser == SerialRun(o, 1, [st |-> EmptyMap, log |-> [x \in Senders |-> <<>>]])
                IN  /\ FlagsOf(ser.st, s) = FlagsOf(eventState, s)
                    /\ Count(ser.log[s], "1") = Count(plnLog[s], "1")
                    /\ Count(ser.log[s], "0") = Count(plnLog[s], "0")

====
